---- MODULE Spec2Model ----
(***************************************************************************)
(* Model of src/src/lib.rs: the four intercepted allocator entry points    *)
(* (malloc, free, realloc, calloc), the thread-local recursion guard, the  *)
(* lazily resolved original function pointers, and the events handed to    *)
(* the profiling emitter.                                                  *)
(*                                                                         *)
(* Every thread has a stack of frames of intercepted calls.  The bottom    *)
(* frame is a call made by the application; a frame above it is a call     *)
(* made by the emitter or by dlsym while the frame below waits for it.     *)
(* The underlying allocator, the emitter and dlsym are the environment:    *)
(* their outcomes are nondeterministic choices.                            *)
(***************************************************************************)
EXTENDS Integers, Sequences, FiniteSets, TLC

VARIABLES
    guard,      \* RECURSION_GUARD of every thread (Cell<u32>)
    once,       \* the lazy_static cell of every ORIGINAL_* pointer
    lookups,    \* number of dlsym lookups made for every name
    stack,      \* per thread: the frames of the intercepted calls in progress
    allocated,  \* addresses live in the underlying allocator
    brk,        \* number of addresses the allocator has handed out so far
    events,     \* the events the emitter has received, in order
    owned,      \* per thread: addresses the application holds
    emOwned,    \* per thread: addresses the emitter holds
    hist,       \* per thread: the application's completed calls, in order
    started,    \* number of calls the application has made
    nested,     \* number of nested calls made by the emitter and by dlsym
    gops,       \* per thread: the last guard operation and its result
    aborted,    \* the process has been terminated
    workload,   \* what the application threads do in this run
    tracker,    \* the lazy_static cell of GLOBAL_TRACKER and its Client::start calls
    phase,      \* the library's lifecycle: "loading", "loaded", "unloaded"
    stderr      \* the lines written to the standard error stream, in order

vars == <<guard, once, lookups, stack, allocated, brk, events, owned, emOwned,
          hist, started, nested, gops, aborted, workload, tracker, phase,
          stderr>>

----------------------------------------------------------------------------
(* Bounds of the model *)

NumAddrs == 2       \* addresses the underlying allocator can hand out
MaxCalls == 2       \* calls of all threads, nested ones included, in the "any" workload
PairsK == 1         \* allocate/free pairs per thread in the "pairs" workload
MaxNested == 2      \* nested calls of the emitter and dlsym in the "scenario" workload
UsizeBits == 9      \* width of size_t in the model

(* Program constants *)

CALLSTACK_DEPTH == 5
POOL == 0
NULL == 0

Threads == {1, 2}
Fns == {"malloc", "free", "realloc", "calloc"}
Addrs == 1..NumAddrs
UsizeMax == 2^UsizeBits - 1
Sizes == {64, 128}
Counts == {1, UsizeMax}
Workloads == {"any", "pairs", "scenario"}

----------------------------------------------------------------------------
(* Pure helpers *)

Top(t) == stack[t][Len(stack[t])]

Busy(t) == Len(stack[t]) > 0

SetTop(t, fr) == [stack EXCEPT ![t] = [@ EXCEPT ![Len(@)] = fr]]

Push(t, fr) == [stack EXCEPT ![t] = Append(@, fr)]

Pop(t) == [stack EXCEPT ![t] = SubSeq(@, 1, Len(@) - 1)]

\* usize::wrapping_mul
WrappingMul(x, y) == (x * y) % (UsizeMax + 1)

\* usize::saturating_mul
SaturatingMul(x, y) == IF x * y > UsizeMax THEN UsizeMax ELSE x * y

\* the frame of a call that has not passed the guard check yet
NewFrame(fn, a, b, by) ==
    [fn |-> fn, a |-> a, b |-> b, by |-> by, pc |-> "enter", granted |-> FALSE,
     ncall |-> 0, nev |-> 0, fwd |-> <<>>, fptr |-> NULL, ret |-> NULL,
     result |-> NULL]

----------------------------------------------------------------------------
(* Recursion guard: enter_critical_section / exit_critical_section *)

\* thread_local!: the cell a thread's RECURSION_GUARD.with reaches, named by
\* the thread that owns it
GuardCellShared(t) == 1

GuardCell(t) == t

\* the value enter_critical_section returns
EnterGranted(g) == ~(g > 0)

\* a guard that counts the depth instead of holding a flag
EnterSetCounting(g) == g + 1

\* the flag after enter_critical_section
EnterSet(g) == IF g > 0 THEN g ELSE 1

\* the flag after exit_critical_section
ExitSet(g) == 0

----------------------------------------------------------------------------
(* Control flow of the four entry points *)

\* free that reports only non-null pointers
AfterEnterFreeNullSilent(fn, a, granted) ==
    CASE ~granted -> "deref"
      [] fn = "malloc" -> "deref"
      [] fn = "free" -> IF a # NULL THEN "emit_free" ELSE "deref"
      [] fn = "realloc" -> IF a # NULL THEN "emit_free" ELSE "deref"
      [] fn = "calloc" -> "deref"

\* free that emits no event before releasing
AfterEnterFreeSilent(fn, a, granted) ==
    CASE ~granted -> "deref"
      [] fn = "malloc" -> "deref"
      [] fn = "free" -> "deref"
      [] fn = "realloc" -> IF a # NULL THEN "emit_free" ELSE "deref"
      [] fn = "calloc" -> "deref"

\* a reallocate that reports no free event for the block it is given
AfterEnterNoFree(fn, a, granted) ==
    IF ~granted THEN "deref"
    ELSE CASE fn = "malloc"  -> "deref"
           [] fn = "free"    -> "emit_free"
           [] fn = "realloc" -> "deref"
           [] fn = "calloc"  -> "deref"

\* where an entry point goes after the guard check
AfterEnter(fn, a, granted) ==
    IF ~granted THEN "deref"
    ELSE CASE fn = "malloc"  -> "deref"
           [] fn = "free"    -> "emit_free"
           [] fn = "realloc" -> IF a # NULL THEN "emit_free" ELSE "deref"
           [] fn = "calloc"  -> "deref"

\* a denied path that clears the guard like the granted path does
AfterCallDeniedExits(fn, granted, ret) ==
    IF ~granted THEN "exit"
    ELSE CASE fn = "malloc"  -> "emit_alloc"
           [] fn = "free"    -> "exit"
           [] fn = "realloc" -> IF ret # NULL THEN "emit_alloc" ELSE "exit"
           [] fn = "calloc"  -> IF ret # NULL THEN "emit_alloc" ELSE "exit"

\* a null result that returns early, before the guard is cleared
AfterCallNullLeaks(fn, granted, ret) ==
    IF ~granted THEN "ret"
    ELSE CASE fn = "malloc"  -> "emit_alloc"
           [] fn = "free"    -> "exit"
           [] fn = "realloc" -> IF ret # NULL THEN "emit_alloc" ELSE "ret"
           [] fn = "calloc"  -> IF ret # NULL THEN "emit_alloc" ELSE "ret"

\* a reallocate that reports its result even when the original failed
AfterCallReallocAlways(fn, granted, ret) ==
    IF ~granted THEN "ret"
    ELSE CASE fn = "malloc"  -> "emit_alloc"
           [] fn = "free"    -> "exit"
           [] fn = "realloc" -> "emit_alloc"
           [] fn = "calloc"  -> IF ret # NULL THEN "emit_alloc" ELSE "exit"

\* an allocate that reports only non-null results
AfterCallMallocNullChecked(fn, granted, ret) ==
    IF ~granted THEN "ret"
    ELSE CASE fn = "malloc"  -> IF ret # NULL THEN "emit_alloc" ELSE "exit"
           [] fn = "free"    -> "exit"
           [] fn = "realloc" -> IF ret # NULL THEN "emit_alloc" ELSE "exit"
           [] fn = "calloc"  -> IF ret # NULL THEN "emit_alloc" ELSE "exit"

\* an allocate that reports nothing
AfterCallMallocSilent(fn, granted, ret) ==
    IF ~granted THEN "ret"
    ELSE CASE fn = "malloc"  -> "exit"
           [] fn = "free"    -> "exit"
           [] fn = "realloc" -> IF ret # NULL THEN "emit_alloc" ELSE "exit"
           [] fn = "calloc"  -> IF ret # NULL THEN "emit_alloc" ELSE "exit"

\* where an entry point goes after the original has returned:
\* "ret" returns at once, "exit" clears the guard and returns
AfterCall(fn, granted, ret) ==
    IF ~granted THEN "ret"
    ELSE CASE fn = "malloc"  -> "emit_alloc"
           [] fn = "free"    -> "exit"
           [] fn = "realloc" -> IF ret # NULL THEN "emit_alloc" ELSE "exit"
           [] fn = "calloc"  -> IF ret # NULL THEN "emit_alloc" ELSE "exit"

\* where an entry point goes after an emission
AfterEmit(pc) == IF pc = "in_emit_free" THEN "deref" ELSE "exit"

\* arguments passed on in the wrong order
FwdArgsSwapped(fr) == <<fr.b, fr.a>>

\* the arguments an entry point passes to the original
FwdArgs(fr) == <<fr.a, fr.b>>

\* the value an entry point returns to its caller
ReturnValue(fr) == fr.ret

\* the size an alloc event carries
AllocSize(fr) == IF fr.fn = "calloc" THEN SaturatingMul(fr.a, fr.b) ELSE fr.b

\* a free event sent without a call stack
FreeEventNoStack(t, fr) ==
    [t |-> t, kind |-> "free", ptr |-> fr.a, size |-> 0,
     depth |-> 0, pool |-> POOL,
     lvl |-> Len(stack[t]), granted |-> fr.granted, ncall |-> fr.ncall]

AllocEvent(t, fr) ==
    [t |-> t, kind |-> "alloc", ptr |-> fr.ret, size |-> AllocSize(fr),
     depth |-> CALLSTACK_DEPTH, pool |-> POOL,
     lvl |-> Len(stack[t]), granted |-> fr.granted, ncall |-> fr.ncall]

FreeEvent(t, fr) ==
    [t |-> t, kind |-> "free", ptr |-> fr.a, size |-> 0,
     depth |-> CALLSTACK_DEPTH, pool |-> POOL,
     lvl |-> Len(stack[t]), granted |-> fr.granted, ncall |-> fr.ncall]

----------------------------------------------------------------------------
(* The environment: the underlying allocator, dlsym, the emitter *)

\* The addresses the allocator may hand out: any address released earlier, or
\* an address never handed out before.  Addresses never handed out are
\* interchangeable, so the lowest of them stands for all.
Available(heap, used) ==
    {p \in Addrs : p \notin heap /\ p <= used + 1}

\* what the original function may do: the value it returns and the heap after
OrigOutcomes(fn, a, b, heap, used) ==
    LET fresh == {[ret |-> p, heap |-> heap \cup {p}] : p \in Available(heap, used)}
        fail  == {[ret |-> NULL, heap |-> heap]}
    IN  CASE fn = "malloc"  -> fresh \cup fail
          [] fn = "calloc"  -> fresh \cup fail
          [] fn = "free"    -> {[ret |-> NULL, heap |-> heap \ {a}]}
          [] fn = "realloc" ->
                IF a = NULL THEN fresh \cup fail
                ELSE fail \cup {[ret |-> a, heap |-> heap]}
                     \cup {[ret |-> p, heap |-> (heap \ {a}) \cup {p}] :
                              p \in Available(heap, used)}

\* the pointers a caller holds after a call returned
Holds(set, fn, a, ret) ==
    CASE fn = "malloc"  -> IF ret # NULL THEN set \cup {ret} ELSE set
      [] fn = "calloc"  -> IF ret # NULL THEN set \cup {ret} ELSE set
      [] fn = "free"    -> set \ {a}
      [] fn = "realloc" -> IF ret # NULL THEN (set \ {a}) \cup {ret} ELSE set

\* the value the application's last completed call returned
LastRet(t) == IF Len(hist[t]) = 0 THEN NULL ELSE hist[t][Len(hist[t])].ret

\* the calls the application may make next, as <<function, a, b>>
AppChoices(t) ==
    CASE workload = "any" ->
            IF started + nested >= MaxCalls THEN {}
            ELSE {<<"malloc", NULL, 64>>}
                 \cup {<<"calloc", c, 64>> : c \in Counts}
                 \cup {<<"free", p, 0>> : p \in owned[t] \cup {NULL}}
                 \cup {<<"realloc", p, 128>> : p \in owned[t] \cup {NULL}}
      [] workload = "pairs" ->
            IF Len(hist[t]) >= 2 * PairsK THEN {}
            ELSE IF Len(hist[t]) % 2 = 0 THEN {<<"malloc", NULL, 64>>}
                 ELSE {<<"free", LastRet(t), 0>>}
      [] workload = "scenario" ->
            IF t # 1 THEN {}
            ELSE CASE Len(hist[t]) = 0 -> {<<"malloc", NULL, 64>>}
                   [] Len(hist[t]) = 1 -> {<<"realloc", LastRet(t), 128>>}
                   [] Len(hist[t]) = 2 -> {<<"free", LastRet(t), 0>>}
                   [] OTHER -> {}

\* the calls the emitter may make while it handles an event
EmitterChoices(t) ==
    {<<"malloc", NULL, 64>>, <<"calloc", 1, 64>>}
    \cup {<<"free", p, 0>> : p \in emOwned[t]}
    \cup {<<"realloc", p, 64>> : p \in emOwned[t]}

\* the emitter and dlsym may still call an intercepted entry point; in the
\* "pairs" workload they make no call of their own
NestedAllowed ==
    CASE workload = "any"      -> started + nested < MaxCalls
      [] workload = "scenario" -> nested < MaxNested
      [] workload = "pairs"    -> FALSE

\* the calls dlsym may make while it looks a name up
DlsymChoices == {<<"calloc", 1, 64>>, <<"malloc", NULL, 64>>}

\* what a lookup of the name may return: NULL, or the definition it finds;
\* the definition found by the k-th lookup of a name is written k
DlsymResults(fn) == {NULL, lookups[fn]}

----------------------------------------------------------------------------
(* lazy_static: the one-time initialisation of an ORIGINAL_* pointer *)

OnceInit == [state |-> "Incomplete", owner |-> 0, ptr |-> NULL]

\* an initialisation that is not synchronised: whoever finds no value runs it
OnceNeedsInitRacy(o) == o.state # "Complete"

\* the caller is the one that runs the initialiser
OnceNeedsInit(o) == o.state = "Incomplete"

\* an initialiser without the null check
ResolveFailsNever(r) == FALSE

\* the initialiser panics on this lookup result
ResolveFails(r) == r = NULL

\* a thread that derefs the cell while its own initialiser runs
ReentrantOutcomes == {"deadlock", "panic"}

\* GLOBAL_TRACKER before its first dereference: AllocationTracker::new, and
\* with it Client::start, has not run
TrackerInit == [state |-> "Incomplete", starts |-> 0]

\* what the load hook and the unload hook write to the standard error stream
InitOutputSilent == <<>>

InitOutput == <<"[memleak] Library loaded">>

FinalizeOutput == <<"[memleak] Library unloaded">>

----------------------------------------------------------------------------
Init ==
    /\ guard = [t \in Threads |-> 0]
    /\ once = [f \in Fns |-> OnceInit]
    /\ lookups = [f \in Fns |-> 0]
    /\ stack = [t \in Threads |-> <<>>]
    /\ allocated = {}
    /\ brk = 0
    /\ events = <<>>
    /\ owned = [t \in Threads |-> {}]
    /\ emOwned = [t \in Threads |-> {}]
    /\ hist = [t \in Threads |-> <<>>]
    /\ started = 0
    /\ nested = 0
    /\ gops = [t \in Threads |-> "none"]
    /\ aborted = FALSE
    /\ workload \in Workloads
    /\ tracker = TrackerInit
    /\ phase = "loading"
    /\ stderr = <<>>

\* The head of an entry point: enter_critical_section decides the path.
\* The frame pushed is that of the call after the guard check.
Entered(t, c, by) ==
    LET granted == EnterGranted(guard[GuardCell(t)])
        fr == NewFrame(c[1], c[2], c[3], by)
    IN  /\ guard' = [guard EXCEPT ![GuardCell(t)] = EnterSet(@)]
        /\ gops' = [gops EXCEPT ![t] = IF granted THEN "granted" ELSE "denied"]
        /\ stack' = Push(t, [fr EXCEPT !.granted = granted,
                                       !.pc = AfterEnter(fr.fn, fr.a, granted)])

\* The tail of the granted path: exit_critical_section, then the return value.
Exited(t, fr) ==
    /\ guard' = [guard EXCEPT ![GuardCell(t)] = ExitSet(@)]
    /\ gops' = [gops EXCEPT ![t] = "exit"]
    /\ stack' = SetTop(t, [fr EXCEPT !.pc = "ret", !.result = ReturnValue(fr)])

\* the application calls an intercepted entry point
AppCall(t) ==
    /\ ~aborted
    /\ phase = "loaded"
    /\ ~Busy(t)
    /\ \E c \in AppChoices(t) : Entered(t, c, "app")
    /\ started' = started + 1
    /\ UNCHANGED <<brk, once, lookups, allocated, events, owned, emOwned, hist,
                   nested, aborted, workload, tracker,
                   phase, stderr>>

\* ___tracy_emit_memory_free_callstack is called
EmitFree(t) ==
    /\ ~aborted
    /\ phase = "loaded"
    /\ Busy(t)
    /\ Top(t).pc = "emit_free"
    /\ events' = Append(events, FreeEvent(t, Top(t)))
    /\ stack' = SetTop(t, [Top(t) EXCEPT !.pc = "in_emit_free", !.nev = @ + 1])
    /\ UNCHANGED <<brk, guard, once, lookups, allocated, owned, emOwned, hist,
                   started, nested, gops, aborted, workload, tracker,
                   phase, stderr>>

\* ___tracy_emit_memory_alloc_callstack is called
EmitAlloc(t) ==
    /\ ~aborted
    /\ phase = "loaded"
    /\ Busy(t)
    /\ Top(t).pc = "emit_alloc"
    /\ events' = Append(events, AllocEvent(t, Top(t)))
    /\ stack' = SetTop(t, [Top(t) EXCEPT !.pc = "in_emit_alloc", !.nev = @ + 1])
    /\ UNCHANGED <<brk, guard, once, lookups, allocated, owned, emOwned, hist,
                   started, nested, gops, aborted, workload, tracker,
                   phase, stderr>>

\* the emitter, handling an event, calls an intercepted entry point itself
EmitterCall(t) ==
    /\ ~aborted
    /\ phase = "loaded"
    /\ Busy(t)
    /\ Top(t).pc \in {"in_emit_free", "in_emit_alloc"}
    /\ NestedAllowed
    /\ \E c \in EmitterChoices(t) : Entered(t, c, "emitter")
    /\ nested' = nested + 1
    /\ UNCHANGED <<brk, once, lookups, allocated, events, owned, emOwned, hist,
                   started, aborted, workload, tracker,
                   phase, stderr>>

\* the emitter returns to the entry point that called it
EmitterReturn(t) ==
    /\ ~aborted
    /\ phase = "loaded"
    /\ Busy(t)
    /\ Top(t).pc \in {"in_emit_free", "in_emit_alloc"}
    /\ IF AfterEmit(Top(t).pc) = "exit"
       THEN Exited(t, Top(t))
       ELSE /\ stack' = SetTop(t, [Top(t) EXCEPT !.pc = AfterEmit(@)])
            /\ UNCHANGED <<guard, gops>>
    /\ UNCHANGED <<brk, once, lookups, allocated, events, owned, emOwned, hist,
                   started, nested, aborted, workload, tracker,
                   phase, stderr>>

\* *ORIGINAL_f: this caller starts the one-time initialiser, which calls
\* dlsym(RTLD_NEXT, name)
DerefInit(t) ==
    /\ ~aborted
    /\ phase = "loaded"
    /\ Busy(t)
    /\ Top(t).pc = "deref"
    /\ OnceNeedsInit(once[Top(t).fn])
    /\ once' = [once EXCEPT ![Top(t).fn] =
                    [state |-> "Running", owner |-> t, ptr |-> NULL]]
    /\ lookups' = [lookups EXCEPT ![Top(t).fn] = @ + 1]
    /\ stack' = SetTop(t, [Top(t) EXCEPT !.pc = "in_dlsym"])
    /\ UNCHANGED <<brk, guard, allocated, events, owned, emOwned, hist, started,
                   nested, gops, aborted, workload, tracker,
                   phase, stderr>>

\* *ORIGINAL_f while this thread's own initialiser of ORIGINAL_f is running
DerefReentrant(t) ==
    /\ ~aborted
    /\ phase = "loaded"
    /\ Busy(t)
    /\ Top(t).pc = "deref"
    /\ once[Top(t).fn].state = "Running"
    /\ once[Top(t).fn].owner = t
    /\ \E o \in ReentrantOutcomes :
          stack' = SetTop(t, [Top(t) EXCEPT !.pc = o])
    /\ UNCHANGED <<brk, guard, once, lookups, allocated, events, owned, emOwned,
                   hist, started, nested, gops, aborted, workload, tracker,
                   phase, stderr>>

\* *ORIGINAL_f after the initialiser of ORIGINAL_f has panicked
DerefPoisoned(t) ==
    /\ ~aborted
    /\ phase = "loaded"
    /\ Busy(t)
    /\ Top(t).pc = "deref"
    /\ once[Top(t).fn].state = "Poisoned"
    /\ stack' = SetTop(t, [Top(t) EXCEPT !.pc = "panic"])
    /\ UNCHANGED <<brk, guard, once, lookups, allocated, events, owned, emOwned,
                   hist, started, nested, gops, aborted, workload, tracker,
                   phase, stderr>>

\* dlsym, looking the name up, calls an intercepted entry point itself
DlsymCall(t) ==
    /\ ~aborted
    /\ phase = "loaded"
    /\ Busy(t)
    /\ Top(t).pc = "in_dlsym"
    /\ NestedAllowed
    /\ \E c \in DlsymChoices : Entered(t, c, "dlsym")
    /\ nested' = nested + 1
    /\ UNCHANGED <<brk, once, lookups, allocated, events, owned, emOwned, hist,
                   started, aborted, workload, tracker,
                   phase, stderr>>

\* dlsym returns; the initialiser panics on NULL and caches the pointer otherwise
DlsymReturn(t) ==
    /\ ~aborted
    /\ phase = "loaded"
    /\ Busy(t)
    /\ Top(t).pc = "in_dlsym"
    /\ \E r \in DlsymResults(Top(t).fn) :
          IF ResolveFails(r)
          THEN /\ once' = [once EXCEPT ![Top(t).fn] =
                              [state |-> "Poisoned", owner |-> 0, ptr |-> NULL]]
               /\ stack' = SetTop(t, [Top(t) EXCEPT !.pc = "panic"])
          ELSE /\ once' = [once EXCEPT ![Top(t).fn] =
                              [state |-> "Complete", owner |-> 0, ptr |-> r]]
               /\ stack' = SetTop(t, [Top(t) EXCEPT !.pc = "deref"])
    /\ UNCHANGED <<brk, guard, lookups, allocated, events, owned, emOwned, hist,
                   started, nested, gops, aborted, workload, tracker,
                   phase, stderr>>

\* (*ORIGINAL_f)(args): the cached pointer is read and called
CallOriginal(t) ==
    /\ ~aborted
    /\ phase = "loaded"
    /\ Busy(t)
    /\ Top(t).pc = "deref"
    /\ once[Top(t).fn].state = "Complete"
    /\ LET fr == Top(t)
           args == FwdArgs(fr)
       IN  \E out \in OrigOutcomes(fr.fn, args[1], args[2], allocated, brk) :
              LET next == AfterCall(fr.fn, fr.granted, out.ret)
                  got == [fr EXCEPT !.ncall = @ + 1, !.fwd = args,
                                    !.fptr = once[fr.fn].ptr,
                                    !.ret = out.ret, !.pc = next]
              IN  /\ allocated' = out.heap
                  /\ brk' = IF out.ret > brk THEN out.ret ELSE brk
                  /\ CASE next = "exit" -> Exited(t, got)
                       [] next = "ret" ->
                            /\ stack' = SetTop(t, [got EXCEPT
                                            !.result = ReturnValue(got)])
                            /\ UNCHANGED <<guard, gops>>
                       [] OTHER ->
                            /\ stack' = SetTop(t, got)
                            /\ UNCHANGED <<guard, gops>>
    /\ UNCHANGED <<once, lookups, events, owned, emOwned, hist, started,
                   nested, aborted, workload, tracker,
                   phase, stderr>>

\* the entry point returns to its caller
Return(t) ==
    /\ ~aborted
    /\ phase = "loaded"
    /\ Busy(t)
    /\ Top(t).pc = "ret"
    /\ LET fr == Top(t)
       IN  /\ stack' = Pop(t)
           /\ owned' = IF fr.by = "app"
                       THEN [owned EXCEPT ![t] = Holds(@, fr.fn, fr.a, fr.result)]
                       ELSE owned
           /\ emOwned' = IF fr.by = "emitter"
                         THEN [emOwned EXCEPT ![t] = Holds(@, fr.fn, fr.a, fr.result)]
                         ELSE emOwned
           /\ hist' = IF fr.by = "app"
                      THEN [hist EXCEPT ![t] = Append(@,
                               [fn |-> fr.fn, a |-> fr.a, b |-> fr.b,
                                ret |-> fr.result])]
                      ELSE hist
    /\ UNCHANGED <<brk, guard, once, lookups, allocated, events, started, nested,
                   gops, aborted, workload, tracker,
                   phase, stderr>>

\* a panic reaches the extern "C" boundary of the entry point: the process aborts
Abort(t) ==
    /\ ~aborted
    /\ phase = "loaded"
    /\ Busy(t)
    /\ Top(t).pc = "panic"
    /\ aborted' = TRUE
    /\ UNCHANGED <<brk, guard, once, lookups, stack, allocated, events, owned,
                   emOwned, hist, started, nested, gops, workload, tracker,
                   phase, stderr>>

\* #[ctor::ctor] init: runs when the library is loaded
ctor_init ==
    /\ phase = "loading"
    /\ phase' = "loaded"
    /\ stderr' = stderr \o InitOutput
    /\ UNCHANGED <<guard, once, lookups, stack, allocated, brk, events, owned,
                   emOwned, hist, started, nested, gops, aborted, workload,
                   tracker>>

\* #[ctor::dtor] finalize: runs when the library is unloaded
dtor_finalize ==
    /\ ~aborted
    /\ phase = "loaded"
    /\ phase' = "unloaded"
    /\ stderr' = stderr \o FinalizeOutput
    /\ UNCHANGED <<guard, once, lookups, stack, allocated, brk, events, owned,
                   emOwned, hist, started, nested, gops, aborted, workload,
                   tracker>>

Calls ==
    \E t \in Threads :
        \/ AppCall(t)
        \/ EmitFree(t)
        \/ EmitAlloc(t)
        \/ EmitterCall(t)
        \/ EmitterReturn(t)
        \/ DerefInit(t)
        \/ DerefReentrant(t)
        \/ DerefPoisoned(t)
        \/ DlsymCall(t)
        \/ DlsymReturn(t)
        \/ CallOriginal(t)
        \/ Return(t)
        \/ Abort(t)

Next ==
    \/ ctor_init
    \/ dtor_finalize
    \/ Calls

Spec == Init /\ [][Next]_vars

----------------------------------------------------------------------------
(* Vocabulary of the properties *)

\* every frame of every thread, as <<thread, index>>
Live == UNION {{<<t, i>> : i \in 1..Len(stack[t])} : t \in Threads}

Frame(id) == stack[id[1]][id[2]]

Stuck(pc) == pc \in {"deadlock", "panic"}

InEmitter(pc) == pc \in {"in_emit_free", "in_emit_alloc"}

\* the events of one thread, in the order the emitter received them
Stream(t) == SelectSeq(events, LAMBDA e : e.t = t)

\* an event as the emitter's caller describes it
Brief(e) == <<e.kind, e.ptr, e.size>>

BriefSeq(es) == [i \in 1..Len(es) |-> Brief(es[i])]

Count(es, kind) == Len(SelectSeq(es, LAMBDA e : e.kind = kind))

\* the events a completed granted call has to produce, by the table of the
\* entry points: call c is [fn, a, b, ret]
CallEvents(c) ==
    CASE c.fn = "malloc"  -> <<<<"alloc", c.ret, c.b>>>>
      [] c.fn = "free"    -> <<<<"free", c.a, 0>>>>
      [] c.fn = "realloc" ->
            (IF c.a # NULL THEN <<<<"free", c.a, 0>>>> ELSE <<>>)
            \o (IF c.ret # NULL THEN <<<<"alloc", c.ret, c.b>>>> ELSE <<>>)
      [] c.fn = "calloc"  ->
            IF c.ret # NULL
            THEN <<<<"alloc", c.ret,
                     IF c.a * c.b > UsizeMax THEN UsizeMax ELSE c.a * c.b>>>>
            ELSE <<>>

RECURSIVE Flatten(_)
Flatten(cs) ==
    IF Len(cs) = 0 THEN <<>>
    ELSE Flatten(SubSeq(cs, 1, Len(cs) - 1)) \o CallEvents(cs[Len(cs)])

----------------------------------------------------------------------------
(* C1: behavioural transparency.  On the granted and on the denied path, an
   intercepted call invokes the original at most once before it returns and
   exactly once by the time it returns, with exactly the arguments its caller
   passed, and returns exactly the value the original returned, a null
   result included. *)
C1_Transparency ==
    \A id \in Live :
        LET fr == Frame(id)
        IN  /\ fr.ncall <= 1
            /\ fr.ncall = 1 => fr.fwd = <<fr.a, fr.b>>
            /\ fr.pc = "ret" => fr.ncall = 1 /\ fr.result = fr.ret

\* a denied call, made by the emitter, about to return a non-null pointer of
\* the original, after the application got a null result on the granted path
C1_Witness ==
    \E id \in Live :
        /\ id[2] = 2
        /\ Frame(id).by = "emitter"
        /\ Frame(id).pc = "ret"
        /\ ~Frame(id).granted
        /\ Frame(id).fn = "calloc"
        /\ Frame(id).result # NULL
        /\ Frame(<<id[1], 1>>).fn = "malloc"
        /\ Frame(<<id[1], 1>>).ret = NULL

(* C2: a call chain in which the emitter calls an intercepted entry point
   never deadlocks and never recurses more than one level into the
   instrumentation: per thread at most one granted frame is active, the
   emitter is never invoked from inside an emitter invocation, and no call
   of the chain is left waiting for ever. *)
C2_EmitterChainReturns ==
    \A t \in Threads :
        /\ Cardinality({id \in Live : id[1] = t /\ Frame(id).granted}) <= 1
        /\ Cardinality({id \in Live : id[1] = t /\ InEmitter(Frame(id).pc)}) <= 1
        /\ (\E id \in Live : id[1] = t /\ InEmitter(Frame(id).pc))
              => Top(t).pc # "deadlock"

\* the part of C2 that is about the guard alone
C2_OneLevel ==
    \A t \in Threads :
        /\ Cardinality({id \in Live : id[1] = t /\ Frame(id).granted}) <= 1
        /\ Cardinality({id \in Live : id[1] = t /\ InEmitter(Frame(id).pc)}) <= 1

(* C3: enter() on an unset flag sets it and returns true; enter() on a set
   flag returns false and leaves it unchanged; exit() clears the flag.  So
   an enter() that directly follows an enter() on the same thread is denied,
   an enter() that follows an exit() (or is the thread's first) is granted,
   and the flag only ever holds the values 0 and 1. *)
C3_GuardSemantics ==
    /\ [](\A t \in Threads : guard[t] \in {0, 1})
    /\ [][\A t \in Threads :
            /\ Len(stack'[t]) > Len(stack[t]) =>
                  /\ guard[t] = 0 => Top(t)'.granted /\ guard'[t] = 1
                  /\ guard[t] # 0 => ~Top(t)'.granted /\ guard'[t] = guard[t]
                  /\ gops[t] \in {"granted", "denied"} => ~Top(t)'.granted
                  /\ gops[t] \in {"none", "exit"} => Top(t)'.granted
            /\ (gops'[t] = "exit" /\ stack'[t] # stack[t]) => guard'[t] = 0
         ]_vars

\* enter() granted, then enter() denied, then exit(), then enter() granted again
C3_Witness ==
    \E t \in Threads :
        /\ Len(hist[t]) = 1
        /\ Len(stack[t]) = 1
        /\ Top(t).granted
        /\ gops[t] = "granted"
        /\ nested = 1
        /\ guard[t] = 1

(* C4: a thread's flag is set if and only if the thread is inside its own
   outermost intercepted call, between that call's enter() and its exit(); the
   outermost call is always a granted one, it has cleared the flag when it
   returns, also after a null result of the original, and the flag is unset
   while the thread is outside all intercepted calls. *)
C4_FlagInvariant ==
    \A t \in Threads :
        /\ Busy(t) => stack[t][1].granted
        /\ guard[t] = 1 <=> (Busy(t) /\ stack[t][1].pc # "ret")
        /\ guard[t] \in {0, 1}

\* a granted allocate-zeroed about to return the original's null result
C4_Witness ==
    \E t \in Threads :
        /\ Len(stack[t]) = 1
        /\ Top(t).fn = "calloc"
        /\ Top(t).granted
        /\ Top(t).pc = "ret"
        /\ Top(t).ret = NULL
        /\ guard[t] = 0

(* C5: a call entered while the flag is set forwards to the original and
   returns without emitting an event and without touching the flag: every
   nested call is denied, the flag stays set for as long as a denied call
   is active, and every event comes from the outermost, granted call. *)
C5_DeniedPath ==
    /\ [](\A id \in Live :
            /\ id[2] > 1 => ~Frame(id).granted
            /\ ~Frame(id).granted => guard[id[1]] = 1)
    /\ [](\A i \in 1..Len(events) : events[i].granted /\ events[i].lvl = 1)
    /\ [][\A t \in Threads :
            (Busy(t) /\ ~Top(t).granted) =>
                /\ guard'[t] = guard[t]
                /\ Stream(t)' = Stream(t)
         ]_vars

\* a denied call of the emitter about to return while the outer call holds
\* the guard, after an earlier denied call in the same outer call
C5_Witness ==
    \E t \in Threads :
        /\ Len(stack[t]) = 2
        /\ ~Top(t).granted
        /\ Top(t).pc = "ret"
        /\ Top(t).by = "emitter"
        /\ guard[t] = 1
        /\ Len(Stream(t)) = 1

(* C6: one-time resolution under concurrency.  For each of the four names
   the lookup is made at most once, whatever the interleaving of the threads'
   first calls; every call through the pointer uses the pointer that is
   cached; the cached pointer never changes once it is set; and the cell of a
   name changes only in a step of a call of that same entry point. *)
C6_ResolvedOnce ==
    /\ [](\A f \in Fns : lookups[f] <= 1)
    /\ [](\A id \in Live :
            Frame(id).ncall = 1 =>
                /\ once[Frame(id).fn].state = "Complete"
                /\ Frame(id).fptr = once[Frame(id).fn].ptr)
    /\ [][\A f \in Fns :
            /\ once[f].state = "Complete" => once'[f] = once[f]
            /\ once'[f] # once[f] =>
                  \E t \in Threads : Busy(t) /\ Top(t).fn = f /\ stack'[t] # stack[t]
         ]_vars

\* two threads inside calls of the same entry point, both past the call through
\* the one pointer found by the single lookup, while another name is unresolved
C6_Witness ==
    \E f \in Fns :
        /\ lookups[f] = 1
        /\ \A t \in Threads :
              /\ Busy(t)
              /\ Top(t).fn = f
              /\ Top(t).ncall = 1
              /\ Top(t).fptr = once[f].ptr
        /\ \E g \in Fns : once[g].state = "Incomplete"

(* C7: re-entrant resolution is safe.  When the initialisation of an original
   pointer calls the same intercepted entry point on the same thread before it
   has completed, that nested call completes: it is neither left waiting for
   ever nor does it end the process, and no second lookup is made. *)
C7_ReentrantResolutionSafe ==
    /\ \A f \in Fns : lookups[f] <= 1
    /\ \A id \in Live :
          (\E below \in Live :
              /\ below[1] = id[1]
              /\ below[2] < id[2]
              /\ Frame(below).fn = Frame(id).fn
              /\ Frame(below).pc = "in_dlsym")
          => ~Stuck(Frame(id).pc)

(* C8: resolution failure is fatal.  No original function is ever called
   through a pointer that is not resolved; once the lookup of a name has
   failed no call of that entry point calls the original or returns, on any
   thread; the call that panicked takes no further step but the termination
   of the process, and after the termination no thread takes a step. *)
C8_ResolutionFailureFatal ==
    /\ [](\A f \in Fns :
            /\ once[f].state = "Complete" <=> once[f].ptr # NULL
            /\ once[f].state = "Poisoned" =>
                  \A id \in Live :
                      Frame(id).fn = f =>
                          Frame(id).ncall = 0 /\ Frame(id).pc # "ret")
    /\ [](\A id \in Live : Frame(id).ncall > 0 => Frame(id).fptr # NULL)
    /\ [][/\ ~aborted
          /\ \A t \in Threads :
                (Busy(t) /\ Top(t).pc = "panic") => stack'[t] = stack[t]
          /\ \A f \in Fns :
                once[f].state = "Poisoned" => once'[f] = once[f]
         ]_vars

\* the process has been terminated after a failed lookup, with the call that
\* made the lookup still unreturned and another thread inside a call
C8_Witness ==
    /\ aborted
    /\ \E t \in Threads :
          /\ Busy(t)
          /\ Top(t).pc = "panic"
          /\ once[Top(t).fn].state = "Poisoned"
          /\ Top(t).ncall = 0
          /\ \E u \in Threads : u # t /\ Busy(u) /\ Top(u).ncall = 1

(* C9: per-thread event order.  The events of a thread that is outside all
   calls are exactly the events of its completed calls, call after call in
   the order of the calls; and allocate(64) yielding P1, reallocate(P1, 128)
   yielding P2, free(P2) on one thread yields exactly alloc(P1, 64),
   free(P1), alloc(P2, 128), free(P2), in this order. *)
C9_PerThreadOrder ==
    /\ \A t \in Threads :
          ~Busy(t) => BriefSeq(Stream(t)) = Flatten(hist[t])
    /\ (/\ workload = "scenario"
        /\ Len(hist[1]) = 3
        /\ hist[1][1].ret # NULL
        /\ hist[1][2].ret # NULL)
       => /\ BriefSeq(events) =
                <<<<"alloc", hist[1][1].ret, 64>>,
                  <<"free", hist[1][1].ret, 0>>,
                  <<"alloc", hist[1][2].ret, 128>>,
                  <<"free", hist[1][2].ret, 0>>>>
          /\ hist[1][2].a = hist[1][1].ret
          /\ hist[1][3].a = hist[1][2].ret

\* the scenario has run to its end with a block that moved, and the emitter
\* made calls of its own on the way
C9_Witness ==
    /\ workload = "scenario"
    /\ ~Busy(1)
    /\ Len(hist[1]) = 3
    /\ hist[1][1].ret # NULL
    /\ hist[1][2].ret # NULL
    /\ hist[1][2].ret # hist[1][1].ret
    /\ nested > 0
    /\ Len(events) = 4

(* C10: cross-thread event consistency.  When the threads each perform
   matched allocate/free pairs, under every interleaving every free event's
   address was emitted earlier in an alloc event of the same thread, and a
   thread that has completed k pairs has emitted exactly k alloc and k free
   events. *)
C10_PairsConsistent ==
    workload = "pairs" =>
        /\ \A i \in 1..Len(events) :
              events[i].kind = "free" =>
                  \E j \in 1..(i - 1) :
                      /\ events[j].kind = "alloc"
                      /\ events[j].t = events[i].t
                      /\ events[j].ptr = events[i].ptr
        /\ \A t \in Threads :
              (~Busy(t) /\ Len(hist[t]) % 2 = 0) =>
                  /\ 2 * Count(Stream(t), "alloc") = Len(hist[t])
                  /\ 2 * Count(Stream(t), "free") = Len(hist[t])

\* both threads have completed their pairs on blocks of their own, and the
\* events of the two threads are interleaved
C10_Witness ==
    /\ workload = "pairs"
    /\ \A t \in Threads : ~Busy(t) /\ Len(hist[t]) = 2 * PairsK
    /\ Len(events) = 4 * PairsK
    /\ events[1].t # events[2].t
    /\ events[1].ptr # NULL
    /\ events[2].ptr # NULL
    /\ events[Len(events)].kind = "free"

----------------------------------------------------------------------------
(* C11..C20 *)

\* the kind of the last event the emitter received for address p
LastEventOf(p) ==
    LET idx == {i \in 1..Len(events) : events[i].ptr = p}
    IN  IF idx = {} THEN "none"
        ELSE events[CHOOSE i \in idx : \A k \in idx : k <= i].kind

\* C11: an address is never reported live after it has been released: when
\* the last event the emitter received for an address is an alloc event, the
\* underlying allocator still holds that address; and whenever the original
\* free or realloc releases an address, the last event for it is not an alloc
\* event (its free event, if it was ever reported, is already in the stream).
C11_FreeReportedBeforeRelease ==
    /\ [](\A p \in Addrs : LastEventOf(p) = "alloc" => p \in allocated)
    /\ [][\A p \in Addrs :
              (p \in allocated /\ p \notin allocated')
                  => /\ LastEventOf(p) # "alloc"
                     /\ events' = events]_vars

\* a realloc has moved a reported block: the old address is released, its
\* free event was the last one for it, and the alloc event of the new address
\* is still to come
C11_Witness ==
    \E t \in Threads :
        /\ Busy(t)
        /\ Top(t).fn = "realloc" /\ Top(t).granted /\ Top(t).pc = "emit_alloc"
        /\ Top(t).a # NULL /\ Top(t).ret # Top(t).a
        /\ Top(t).a \notin allocated
        /\ LastEventOf(Top(t).a) = "free"
        /\ \E i \in 1..Len(events) :
              events[i].kind = "alloc" /\ events[i].ptr = Top(t).a

\* C12: Client::start is invoked at most once in a process, and in every
\* execution in which an entry point has emitted an event it has been invoked.
C12_SessionStartedBeforeEvents ==
    /\ tracker.starts <= 1
    /\ (Len(events) > 0 => tracker.starts = 1)

\* the frames of the granted calls of function fn, as <<thread, index>>
GrantedFrames(fn) == {id \in Live : Frame(id).granted /\ Frame(id).fn = fn}

\* the events a granted frame of thread t has emitted so far: the last nev
\* events of the thread
OwnEvents(t, fr) ==
    SubSeq(Stream(t), Len(Stream(t)) - fr.nev + 1, Len(Stream(t)))

\* C13: a granted calloc(count, size) emits exactly one alloc event, carrying
\* the returned pointer and the total size, when the original returned a
\* non-null pointer, and no event otherwise; the total is count * size when
\* that fits the unsigned size type and the largest value of the type
\* otherwise; the call does not fault once the original has returned.
C13_CallocReport ==
    \A id \in GrantedFrames("calloc") :
        LET fr == Frame(id)
            own == OwnEvents(id[1], fr)
            total == IF fr.a * fr.b <= UsizeMax THEN fr.a * fr.b ELSE UsizeMax
        IN  /\ Len(own) = fr.nev
            /\ fr.ncall = 0 => fr.nev = 0
            /\ fr.ncall = 1 => ~Stuck(fr.pc)
            /\ fr.pc \in {"in_emit_alloc", "ret"} =>
                  /\ fr.ncall = 1
                  /\ fr.ret # NULL =>
                        /\ fr.nev = 1
                        /\ Brief(own[1]) = <<"alloc", fr.ret, total>>
                        /\ own[1].ncall = 1
                  /\ fr.ret = NULL => fr.nev = 0

\* a granted calloc whose count * size overflows has returned a block and
\* reported it with the largest size
C13_Witness ==
    \E id \in GrantedFrames("calloc") :
        /\ Frame(id).pc = "ret"
        /\ Frame(id).a * Frame(id).b > UsizeMax
        /\ Frame(id).ret # NULL
        /\ OwnEvents(id[1], Frame(id)) =
              <<AllocEvent(id[1], [Frame(id) EXCEPT !.granted = TRUE])>>
        /\ events[Len(events)].size = UsizeMax

\* 1 for a non-null pointer, 0 for the null pointer
NonNull(p) == IF p # NULL THEN 1 ELSE 0

\* C14: a granted realloc(p, size) emits a free event for p exactly when p is
\* non-null, before the original realloc is called, and an alloc event with
\* the returned pointer and size exactly when the returned pointer is
\* non-null, after the original has returned.  When the original fails on a
\* non-null p the call has emitted exactly one free event and no alloc event,
\* returns null, and the block, still allocated, has been reported as freed.
C14_ReallocProtocol ==
    \A id \in GrantedFrames("realloc") :
        LET fr == Frame(id)
            own == OwnEvents(id[1], fr)
        IN  /\ Len(own) = fr.nev
            /\ fr.pc = "emit_free" => fr.nev = 0 /\ fr.ncall = 0 /\ fr.a # NULL
            /\ fr.pc # "emit_free" =>
                  /\ fr.nev >= NonNull(fr.a)
                  /\ Count(own, "free") = NonNull(fr.a)
                  /\ fr.a # NULL =>
                        /\ Brief(own[1]) = <<"free", fr.a, 0>>
                        /\ own[1].ncall = 0
            /\ fr.ncall = 0 => Count(own, "alloc") = 0
            /\ fr.pc = "emit_alloc" =>
                  fr.ncall = 1 /\ fr.ret # NULL /\ fr.nev = NonNull(fr.a)
            /\ fr.pc \in {"in_emit_alloc", "ret"} =>
                  /\ fr.ncall = 1
                  /\ fr.nev = NonNull(fr.a) + NonNull(fr.ret)
                  /\ Count(own, "alloc") = NonNull(fr.ret)
                  /\ fr.ret # NULL =>
                        /\ Brief(own[fr.nev]) = <<"alloc", fr.ret, fr.b>>
                        /\ own[fr.nev].ncall = 1
            /\ (fr.pc = "ret" /\ fr.a # NULL /\ fr.ret = NULL) =>
                  /\ BriefSeq(own) = << <<"free", fr.a, 0>> >>
                  /\ fr.result = NULL
                  /\ fr.a \in allocated
                  /\ LastEventOf(fr.a) = "free"

\* the original realloc has failed on a block the application had allocated:
\* the block is still allocated and the stream ends with its free event
C14_Witness ==
    \E id \in GrantedFrames("realloc") :
        /\ Frame(id).pc = "ret"
        /\ Frame(id).a # NULL /\ Frame(id).ret = NULL
        /\ Frame(id).a \in allocated
        /\ Len(events) >= 2
        /\ Brief(events[Len(events)]) = <<"free", Frame(id).a, 0>>
        /\ \E i \in 1..Len(events) :
              Brief(events[i]) = <<"alloc", Frame(id).a, 64>>

\* C15: a granted free(p) emits exactly one free event, carrying p, before
\* the original free is called, whatever p is, the null pointer included;
\* free(null) does not fault once the original is resolved, passes null to
\* the original, and the guard is clear before the call returns.
C15_FreeProtocol ==
    \A id \in GrantedFrames("free") :
        LET fr == Frame(id)
            own == OwnEvents(id[1], fr)
        IN  /\ Len(own) = fr.nev
            /\ fr.pc = "emit_free" => fr.nev = 0 /\ fr.ncall = 0
            /\ fr.pc # "emit_free" =>
                  /\ BriefSeq(own) = << <<"free", fr.a, 0>> >>
                  /\ own[1].ncall = 0
            /\ fr.ncall = 1 =>
                  /\ fr.pc = "ret"
                  /\ fr.fwd[1] = fr.a
                  /\ guard[id[1]] = 0

\* free(null) on the granted path has emitted its event, called the original
\* with null and is about to return
C15_Witness ==
    \E id \in GrantedFrames("free") :
        /\ Frame(id).a = NULL
        /\ Frame(id).pc = "ret"
        /\ Frame(id).ncall = 1 /\ Frame(id).fwd[1] = NULL
        /\ Brief(events[Len(events)]) = <<"free", NULL, 0>>
        /\ guard[id[1]] = 0

\* C16: a granted malloc(size) calls the original first and then emits exactly
\* one alloc event, carrying the returned pointer and size, whether or not the
\* returned pointer is null.
C16_MallocProtocol ==
    \A id \in GrantedFrames("malloc") :
        LET fr == Frame(id)
            own == OwnEvents(id[1], fr)
        IN  /\ Len(own) = fr.nev
            /\ fr.ncall = 0 => fr.nev = 0
            /\ fr.pc = "emit_alloc" => fr.ncall = 1 /\ fr.nev = 0
            /\ fr.ncall = 1 => fr.pc \in {"emit_alloc", "in_emit_alloc", "ret"}
            /\ fr.pc \in {"in_emit_alloc", "ret"} =>
                  /\ fr.ncall = 1
                  /\ BriefSeq(own) = << <<"alloc", fr.ret, fr.b>> >>
                  /\ own[1].ncall = 1

\* the original malloc has failed and the granted call has reported the null
\* pointer
C16_Witness ==
    \E id \in GrantedFrames("malloc") :
        /\ Frame(id).pc = "ret"
        /\ Frame(id).ret = NULL
        /\ Frame(id).nev = 1
        /\ Brief(events[Len(events)]) = <<"alloc", NULL, Frame(id).b>>

\* C17: the guard is private to its thread.  A step changes the flag of a
\* thread only when it is a step of that thread; a thread entering an entry
\* point is granted exactly when its own flag is clear, whatever the flags
\* of the other threads are; a thread leaving the granted path clears its
\* own flag and no other.
C17_ThreadIsolation ==
    [][\A t \in Threads :
          /\ guard'[t] # guard[t] => stack'[t] # stack[t]
          /\ Len(stack'[t]) > Len(stack[t]) =>
                /\ stack'[t][Len(stack'[t])].granted <=> guard[t] = 0
                /\ \A u \in Threads \ {t} : guard'[u] = guard[u]
          /\ (gops'[t] = "exit" /\ stack'[t] # stack[t]) =>
                /\ guard'[t] = 0
                /\ \A u \in Threads \ {t} : guard'[u] = guard[u]]_vars

\* both threads are inside a granted interception at once, each holding its
\* own flag, the second having entered while the first held its flag
C17_Witness ==
    /\ \A t \in Threads :
          /\ guard[t] = 1
          /\ Len(stack[t]) = 1
          /\ stack[t][1].granted
    /\ stack[1][1].pc = "in_emit_alloc"
    /\ stack[2][1].pc = "emit_free"

\* C18: the stream of events, over all threads, never holds two alloc
\* events for the same non-null address without a free event for that address
\* between them (the application and the emitter release only addresses they
\* hold, the application on the granted path).
C18_NoDoubleAlloc ==
    \A i, j \in 1..Len(events) :
        (/\ i < j
         /\ events[i].kind = "alloc" /\ events[j].kind = "alloc"
         /\ events[i].ptr # NULL /\ events[i].ptr = events[j].ptr)
            => \E k \in (i + 1)..(j - 1) :
                  events[k].kind = "free" /\ events[k].ptr = events[i].ptr

\* an address reported by one thread, freed, and handed out again to the
\* other thread, which reports it in turn
C18_Witness ==
    \E i, j \in 1..Len(events) :
        /\ i < j
        /\ events[i].kind = "alloc" /\ events[j].kind = "alloc"
        /\ events[i].ptr # NULL /\ events[i].ptr = events[j].ptr
        /\ events[i].t # events[j].t

\* C19: the load hook runs once, when the library is loaded, and the unload
\* hook once, when it is unloaded; each writes one notice to the standard
\* error stream, and nothing else writes there; neither hook changes a guard,
\* resolves an original function, starts the session, emits an event or
\* touches a call in progress.
C19_HooksOnlyNotify ==
    /\ [](/\ phase = "loading" => stderr = <<>>
          /\ phase = "loaded" => stderr = <<"[memleak] Library loaded">>
          /\ phase = "unloaded" => stderr = <<"[memleak] Library loaded",
                                              "[memleak] Library unloaded">>)
    /\ [][/\ phase' # phase =>
                /\ <<phase, phase'>> \in {<<"loading", "loaded">>,
                                          <<"loaded", "unloaded">>}
                /\ Len(stderr') = Len(stderr) + 1
                /\ UNCHANGED <<guard, gops, once, lookups, tracker, events,
                               stack, allocated>>
          /\ stderr' # stderr => phase' # phase]_vars

\* the library has been unloaded after events were emitted, while a thread
\* was inside a granted call with its flag set and a pointer resolved
C19_Witness ==
    /\ phase = "unloaded"
    /\ Len(stderr) = 2
    /\ Len(events) > 0
    /\ \E t \in Threads : guard[t] = 1 /\ Busy(t)
    /\ \E f \in Fns : once[f].state = "Complete"

\* C20: every event the emitter has received carries call-stack depth 5 and
\* pool 0, whatever the call, its arguments, its result and the calls before.
C20_DepthAndPool ==
    \A i \in 1..Len(events) : events[i].depth = 5 /\ events[i].pool = 0

\* the stream holds an alloc event and a free event, from different threads,
\* and an event for the null pointer
C20_Witness ==
    /\ \E i, j \in 1..Len(events) :
          /\ events[i].kind = "alloc" /\ events[j].kind = "free"
          /\ events[i].t # events[j].t
    /\ \E i \in 1..Len(events) : events[i].ptr = NULL

====
